---- MODULE Spec2Model ----
(***************************************************************************)
(* redis-decorators: memoization of function results in a Redis cache.     *)
(*                                                                         *)
(* The model has three layers, as the source has:                          *)
(*   - the engine commands the adapters call (SET/GET, HSET/HGET/HGETALL,  *)
(*     DEL, RPUSH/LRANGE, EXPIRE) on a keyspace with times-to-live;        *)
(*   - the Cacheable adapters and the CacheElement load/dump transforms;   *)
(*   - the memoizing wrappers (CacheValueWrapper of redis_decorators and   *)
(*     the earlier CacheValue of redis_utils).                             *)
(***************************************************************************)
EXTENDS Integers, Sequences, FiniteSets, TLC

VARIABLES
    cache,      \* the engine: [data: key -> entry, ttl: key -> seconds left]
    wrappers,   \* decorated functions: function name -> wrapper object
    last,       \* observation of the last operation (what a test would see)
    computed,   \* <<function, key>> -> what the wrapped function returned when
                \* it last ran for the key, forgotten when the key is deleted,
                \* expires or is written by another client
    outofband,  \* keys whose content was last written by another client
    removed,    \* keys the last delete or expiry removed, not stored under since
    procs,      \* concurrent callers: caller -> where it is in its __call__
    conn,       \* RedisCaching holders and the shared _cache_instances
    url         \* build_redis_url: its arguments and its result

vars == <<cache, wrappers, last, computed, outofband, removed, procs, conn, url>>

\* what the operations on one part of the program leave alone
others == <<procs, conn, url>>

(***************************************************************************)
(* Values.  Every value that travels between the function, the adapters    *)
(* and the engine is a record of one layout, so that values of different   *)
(* Python types can be compared.                                           *)
(***************************************************************************)
Val(kind, s, l, h, d) == [kind |-> kind, s |-> s, l |-> l, h |-> h, d |-> d]

None == Val("None", "", <<>>, <<>>, <<>>)
VStr(s) == Val("str", s, <<>>, <<>>, <<>>)
VList(l) == Val("list", "", l, <<>>, <<>>)
VDict(h) == Val("dict", "", <<>>, h, <<>>)
VDateTime(d) == Val("datetime", "", <<>>, <<>>, d)
Raise(name) == Val("raise", name, <<>>, <<>>, <<>>)

IsRaise(v) == v.kind = "raise"

\* A dict with no entries; dicts are functions from field names to strings.
EmptyDict == [f \in {} |-> ""]

DictOf(f, v) == [x \in {f} |-> v]

\* dict.update: the entries of m override those of h.
DictUpdate(h, m) ==
    [f \in (DOMAIN h) \cup (DOMAIN m) |-> IF f \in DOMAIN m THEN m[f] ELSE h[f]]

(***************************************************************************)
(* The engine.  A key is present iff it is in DOMAIN e.data; a present key *)
(* holds a str, a list (never empty) or a dict (hash, never empty).  A key *)
(* in DOMAIN e.ttl expires when its count reaches zero.  Each command      *)
(* returns [e |-> engine after, r |-> reply].                              *)
(***************************************************************************)
EmptyCache == [data |-> [k \in {} |-> None], ttl |-> [k \in {} |-> 0]]

Reply(e, r) == [e |-> e, r |-> r]

Exists(e, k) == k \in DOMAIN e.data

KindOf(e, k) == IF Exists(e, k) THEN e.data[k].kind ELSE "None"

Without(f, k) == [x \in (DOMAIN f) \ {k} |-> f[x]]

Put(f, k, v) == [x \in (DOMAIN f) \cup {k} |-> IF x = k THEN v ELSE f[x]]

\* GET key
Get(e, k) ==
    CASE ~Exists(e, k) -> Reply(e, None)
      [] KindOf(e, k) = "str" -> Reply(e, e.data[k])
      [] OTHER -> Reply(e, Raise("WRONGTYPE"))

\* SET key value: replaces whatever the key held and discards its ttl.
Set(e, k, s) ==
    Reply([data |-> Put(e.data, k, VStr(s)), ttl |-> Without(e.ttl, k)], None)

\* HGET key field
HGet(e, k, f) ==
    CASE ~Exists(e, k) -> Reply(e, None)
      [] KindOf(e, k) # "dict" -> Reply(e, Raise("WRONGTYPE"))
      [] f \in DOMAIN e.data[k].h -> Reply(e, VStr(e.data[k].h[f]))
      [] OTHER -> Reply(e, None)

\* HSET key field value [field value ...]: the client refuses an empty
\* mapping; the engine adds the fields to the hash the key holds.
HSet(e, k, m) ==
    CASE DOMAIN m = {} -> Reply(e, Raise("DataError"))
      [] ~Exists(e, k) ->
            Reply([data |-> Put(e.data, k, VDict(m)), ttl |-> e.ttl], None)
      [] KindOf(e, k) # "dict" -> Reply(e, Raise("WRONGTYPE"))
      [] OTHER ->
            Reply([data |-> Put(e.data, k, VDict(DictUpdate(e.data[k].h, m))),
                   ttl |-> e.ttl], None)

\* HGETALL key: the empty dict for a key that does not exist.
HGetAll(e, k) ==
    CASE ~Exists(e, k) -> Reply(e, VDict(EmptyDict))
      [] KindOf(e, k) # "dict" -> Reply(e, Raise("WRONGTYPE"))
      [] OTHER -> Reply(e, e.data[k])

\* DEL key
Delete(e, k) ==
    Reply([data |-> Without(e.data, k), ttl |-> Without(e.ttl, k)], None)

\* RPUSH key value [value ...]: the engine rejects the command without values.
RPush(e, k, l) ==
    CASE l = <<>> -> Reply(e, Raise("ResponseError"))
      [] ~Exists(e, k) ->
            Reply([data |-> Put(e.data, k, VList(l)), ttl |-> e.ttl], None)
      [] KindOf(e, k) # "list" -> Reply(e, Raise("WRONGTYPE"))
      [] OTHER ->
            Reply([data |-> Put(e.data, k, VList(e.data[k].l \o l)),
                   ttl |-> e.ttl], None)

\* LRANGE key 0 -1: the empty list for a key that does not exist.
LRange(e, k) ==
    CASE ~Exists(e, k) -> Reply(e, VList(<<>>))
      [] KindOf(e, k) # "list" -> Reply(e, Raise("WRONGTYPE"))
      [] OTHER -> Reply(e, e.data[k])

\* Variant: EXPIRE that leaves the key without a time-to-live.
ExpireIgnored(e, k, secs) == Reply(e, None)

\* EXPIRE key seconds: no effect on a key that does not exist.
Expire(e, k, secs) ==
    IF Exists(e, k)
    THEN Reply([data |-> e.data, ttl |-> Put(e.ttl, k, secs)], None)
    ELSE Reply(e, None)

\* TTL key: -2 for no key, -1 for a key without expiry.
Ttl(e, k) ==
    CASE ~Exists(e, k) -> -2
      [] k \notin DOMAIN e.ttl -> -1
      [] OTHER -> e.ttl[k]

(***************************************************************************)
(* datetime.isoformat and datetime.fromisoformat, for naive datetimes.  A  *)
(* datetime is <<year, month, day, hour, minute, second, microsecond>>.    *)
(***************************************************************************)
Digits == "0123456789"

Char(s, i) == SubSeq(s, i, i)

IsDigit(c) == \E i \in 1..10 : Char(Digits, i) = c

DigitOf(c) == (CHOOSE i \in 1..10 : Char(Digits, i) = c) - 1

RECURSIVE Pad(_, _)
\* n written in decimal on w digits, zero-filled ("%0wd")
Pad(n, w) == IF w = 0 THEN "" ELSE Pad(n \div 10, w - 1) \o Char(Digits, (n % 10) + 1)

AllDigits(s) == \A i \in 1..Len(s) : IsDigit(Char(s, i))

RECURSIVE ParseInt(_)
ParseInt(s) ==
    IF Len(s) = 0 THEN 0
    ELSE 10 * ParseInt(SubSeq(s, 1, Len(s) - 1)) + DigitOf(Char(s, Len(s)))

\* datetime.isoformat(): 'YYYY-MM-DDTHH:MM:SS', with '.ffffff' appended only
\* when the microsecond is not zero.
Isoformat(d) ==
    Pad(d[1], 4) \o "-" \o Pad(d[2], 2) \o "-" \o Pad(d[3], 2) \o "T"
        \o Pad(d[4], 2) \o ":" \o Pad(d[5], 2) \o ":" \o Pad(d[6], 2)
        \o (IF d[7] = 0 THEN "" ELSE "." \o Pad(d[7], 6))

DaysInMonth(y, m) ==
    CASE m \in {4, 6, 9, 11} -> 30
      [] m = 2 -> IF (y % 4 = 0 /\ y % 100 # 0) \/ y % 400 = 0 THEN 29 ELSE 28
      [] OTHER -> 31

ValidDateTime(d) ==
    /\ d[1] \in 1..9999 /\ d[2] \in 1..12 /\ d[3] \in 1..DaysInMonth(d[1], d[2])
    /\ d[4] \in 0..23 /\ d[5] \in 0..59 /\ d[6] \in 0..59 /\ d[7] \in 0..999999

\* The layouts fromisoformat accepts: 'YYYY-MM-DD', then optionally any one
\* separator character and 'HH', 'HH:MM', 'HH:MM:SS', 'HH:MM:SS.fff' or
\* 'HH:MM:SS.ffffff'.
IsoLayoutOk(s) ==
    /\ Len(s) \in {10, 13, 16, 19, 23, 26}
    /\ AllDigits(SubSeq(s, 1, 4)) /\ Char(s, 5) = "-"
    /\ AllDigits(SubSeq(s, 6, 7)) /\ Char(s, 8) = "-"
    /\ AllDigits(SubSeq(s, 9, 10))
    /\ Len(s) >= 13 => AllDigits(SubSeq(s, 12, 13))
    /\ Len(s) >= 16 => Char(s, 14) = ":" /\ AllDigits(SubSeq(s, 15, 16))
    /\ Len(s) >= 19 => Char(s, 17) = ":" /\ AllDigits(SubSeq(s, 18, 19))
    /\ Len(s) >= 23 => Char(s, 20) = "." /\ AllDigits(SubSeq(s, 21, Len(s)))

IsoFields(s) ==
    << ParseInt(SubSeq(s, 1, 4)), ParseInt(SubSeq(s, 6, 7)), ParseInt(SubSeq(s, 9, 10)),
       IF Len(s) >= 13 THEN ParseInt(SubSeq(s, 12, 13)) ELSE 0,
       IF Len(s) >= 16 THEN ParseInt(SubSeq(s, 15, 16)) ELSE 0,
       IF Len(s) >= 19 THEN ParseInt(SubSeq(s, 18, 19)) ELSE 0,
       CASE Len(s) = 23 -> 1000 * ParseInt(SubSeq(s, 21, 23))
         [] Len(s) = 26 -> ParseInt(SubSeq(s, 21, 26))
         [] OTHER -> 0 >>

\* Variant: fromisoformat that reads no fraction of a second.
FromisoformatSeconds(s) ==
    IF IsoLayoutOk(s) /\ ValidDateTime(IsoFields(s))
    THEN VDateTime([IsoFields(s) EXCEPT ![7] = 0])
    ELSE Raise("ValueError: Invalid isoformat string")

\* datetime.fromisoformat(s): the datetime, or ValueError.
Fromisoformat(s) ==
    IF IsoLayoutOk(s) /\ ValidDateTime(IsoFields(s))
    THEN VDateTime(IsoFields(s))
    ELSE Raise("ValueError: Invalid isoformat string")

(***************************************************************************)
(* Cacheable adapters.  An adapter is [cls, dict_key]; dict_key matters    *)
(* only to DictStringCacheable.  store returns the engine's Reply; fetch   *)
(* returns the fetched value, None, or the error the engine raised.        *)
(***************************************************************************)
Cacheable(cls, dict_key) == [cls |-> cls, dict_key |-> dict_key]

StringCacheable == Cacheable("StringCacheable", "")
DictStringCacheable(dict_key) == Cacheable("DictStringCacheable", dict_key)
DictCacheable == Cacheable("DictCacheable", "")
ListCacheable == Cacheable("ListCacheable", "")

StringCacheableStore(e, k, v) == Set(e, k, v.s)

\* Variant: client.get(key) or None, which turns a stored '' into None.
StringCacheableFetchFalsy(e, k) ==
    LET r == Get(e, k).r
    IN  IF r.kind = "str" /\ r.s = "" THEN None ELSE r

StringCacheableFetch(e, k) == Get(e, k).r

\* Variant: the key is given a hash of the one field, its other fields dropped.
DictStringCacheableStoreWhole(dict_key, e, k, v) ==
    HSet(Delete(e, k).e, k, DictOf(dict_key, v.s))

DictStringCacheableStore(dict_key, e, k, v) == HSet(e, k, DictOf(dict_key, v.s))

\* Variant: client.hget(key, dict_key) or None.
DictStringCacheableFetchFalsy(dict_key, e, k) ==
    LET r == HGet(e, k, dict_key).r
    IN  IF r.kind = "str" /\ r.s = "" THEN None ELSE r

DictStringCacheableFetch(dict_key, e, k) == HGet(e, k, dict_key).r

DictCacheableStore(e, k, v) == HSet(e, k, v.h)

\* Variant: client.hgetall(key) returned as it is (as redis_utils did).
DictCacheableFetchRaw(e, k) == HGetAll(e, k).r

\* client.hgetall(key) or None
DictCacheableFetch(e, k) ==
    LET r == HGetAll(e, k).r
    IN  IF r.kind = "dict" /\ DOMAIN r.h = {} THEN None ELSE r

\* ListCacheable.store, first command: client.delete(key)
ListCacheableStoreDelete(e, k) == Delete(e, k)

\* ListCacheable.store, second command: client.rpush(key, *value)
ListCacheableStorePush(e, k, v) == RPush(e, k, v.l)

\* client.delete(key); client.rpush(key, *value)
ListCacheableStore(e, k, v) ==
    ListCacheableStorePush(ListCacheableStoreDelete(e, k).e, k, v)

\* client.lrange(key, 0, -1) or None
ListCacheableFetch(e, k) ==
    LET r == LRange(e, k).r
    IN  IF r.kind = "list" /\ r.l = <<>> THEN None ELSE r

\* The kind of engine entry an adapter reads and writes.
KindFor(c) ==
    CASE c.cls = "StringCacheable" -> "str"
      [] c.cls = "ListCacheable" -> "list"
      [] OTHER -> "dict"

\* Something is stored at the place the adapter reads: the key exists and,
\* for the hash-field adapter reading a hash, the hash has its field.
Stored(c, e, k) ==
    /\ Exists(e, k)
    /\ (c.cls = "DictStringCacheable" /\ KindOf(e, k) = "dict") => c.dict_key \in DOMAIN e.data[k].h

Store(c, e, k, v) ==
    CASE c.cls = "StringCacheable" -> StringCacheableStore(e, k, v)
      [] c.cls = "DictStringCacheable" -> DictStringCacheableStore(c.dict_key, e, k, v)
      [] c.cls = "DictCacheable" -> DictCacheableStore(e, k, v)
      [] c.cls = "ListCacheable" -> ListCacheableStore(e, k, v)

Fetch(c, e, k) ==
    CASE c.cls = "StringCacheable" -> StringCacheableFetch(e, k)
      [] c.cls = "DictStringCacheable" -> DictStringCacheableFetch(c.dict_key, e, k)
      [] c.cls = "DictCacheable" -> DictCacheableFetch(e, k)
      [] c.cls = "ListCacheable" -> ListCacheableFetch(e, k)

\* Variant: the fetch command with the key alone.
FetchCommandBare(c, k) ==
    CASE c.cls = "StringCacheable" -> <<"get", k>>
      [] c.cls = "DictStringCacheable" -> <<"hget", k>>
      [] c.cls = "DictCacheable" -> <<"hgetall", k>>
      [] c.cls = "ListCacheable" -> <<"lrange", k>>

\* The engine command fetch issues: its name, the key, its other arguments.
FetchCommand(c, k) ==
    CASE c.cls = "StringCacheable" -> <<"get", k>>
      [] c.cls = "DictStringCacheable" -> <<"hget", k, c.dict_key>>
      [] c.cls = "DictCacheable" -> <<"hgetall", k>>
      [] c.cls = "ListCacheable" -> <<"lrange", k, "0", "-1">>

\* The engine commands store issues, in order (the value left out).
StoreCommands(c, k) ==
    CASE c.cls = "StringCacheable" -> << <<"set", k>> >>
      [] c.cls = "DictStringCacheable" -> << <<"hset", k, c.dict_key>> >>
      [] c.cls = "DictCacheable" -> << <<"hset", k, "mapping">> >>
      [] c.cls = "ListCacheable" -> << <<"delete", k>>, <<"rpush", k>> >>

(***************************************************************************)
(* Cache elements: an adapter with load/dump transforms.                   *)
(***************************************************************************)
CacheElement(cls, cacheable) == [cls |-> cls, cacheable |-> cacheable]

CacheElementSingleType(cacheable) == CacheElement("CacheElementSingleType", cacheable)
CacheDateTime == CacheElement("CacheDateTime", StringCacheable)

Load(el, v) == IF el.cls = "CacheDateTime" THEN Fromisoformat(v.s) ELSE v

Dump(el, v) == IF el.cls = "CacheDateTime" THEN VStr(Isoformat(v.d)) ELSE v

\* Variant: get_value returning what fetch gave, without load.
GetValueNoLoad(el, e, k) == [r |-> Fetch(el.cacheable, e, k), loaded |-> FALSE]

\* CacheElement.get_value: [r |-> value, None or error, loaded |-> load was called]
GetValue(el, e, k) ==
    LET value == Fetch(el.cacheable, e, k)
    IN  IF value = None \/ IsRaise(value)
        THEN [r |-> value, loaded |-> FALSE]
        ELSE [r |-> Load(el, value), loaded |-> TRUE]

\* CacheElement.set_value
SetValue(el, e, k, v) == Store(el.cacheable, e, k, Dump(el, v))

(***************************************************************************)
(* Bounds and the finite sets the inputs are drawn from.                   *)
(***************************************************************************)
\* largest time-to-live, in seconds, the model configures
MaxTtl == 2

FuncNames == {"decorated_function"}

Shapes == {"cache_string", "cache_dict", "cache_dict_string", "cache_list", "cache_datetime"}

\* A call's arguments: positional strings and keyword arguments, the latter
\* a sequence of <<name, value>> in the order they were passed.
Input(args, kwargs) == [args |-> args, kwargs |-> kwargs]

NoInput == Input(<<>>, <<>>)

Inputs ==
    { Input(<<"123", "abc">>, <<>>),
      Input(<<"123">>, << <<"x", VStr("1")>> >>) }

\* What a wrapped function of each shape may return.
Returns(shape) ==
    CASE shape = "cache_string" -> {VStr(""), VStr("string-value")}
      [] shape = "cache_dict_string" -> {VStr(""), VStr("string-value")}
      [] shape = "cache_dict" -> {VDict(EmptyDict), VDict(DictOf("hash", "value"))}
      [] shape = "cache_list" -> {VList(<<>>), VList(<<"list", "value">>)}
      [] shape = "cache_datetime" ->
            {VDateTime(<<2021, 2, 3, 4, 5, 6, 0>>), VDateTime(<<2021, 2, 3, 4, 5, 6, 7>>)}

\* Values another client of the engine may write under a key.
OutOfBandValues ==
    { VStr("new_cached_value"), VStr("2020-02-29T23:59:59"),
      VDict(DictOf("dict-key", "new_cached_value")), VList(<<"new">>) }

(***************************************************************************)
(* Key functions and ttl functions a caller may supply.                    *)
(***************************************************************************)
KeyFns == {"object"}

\* the docstring's key function f'object:{arg}', on the first positional
\* argument: calls that differ only in later arguments share a key
KeyFn(fn, in) == fn \o ":" \o (IF Len(in.args) > 0 THEN in.args[1] ELSE "")

\* expire_in: None, a number of seconds, a timedelta of whole seconds, or a
\* function of the arguments and the stored value (passed as keyword 'value').
ExpNone == [kind |-> "None", n |-> 0]
ExpInt(n) == [kind |-> "int", n |-> n]
ExpTimedelta(seconds) == [kind |-> "timedelta", n |-> seconds]
ExpFn == [kind |-> "callable", n |-> 0]

\* the fixed expire_in values a decorator is configured with
FixedExpireIn == {ExpNone, ExpInt(0), ExpInt(MaxTtl), ExpTimedelta(0), ExpTimedelta(MaxTtl)}

\* the keyword argument 'value' of a call, None when there is none
ValueArg(in) ==
    IF \E i \in 1..Len(in.kwargs) : in.kwargs[i][1] = "value"
    THEN in.kwargs[CHOOSE i \in 1..Len(in.kwargs) : in.kwargs[i][1] = "value"][2]
    ELSE None

\* the tests' value_expires_in(arg, value), made to depend on both: no
\* time-to-live for an empty string, else as many seconds as there are
\* positional arguments
ExpireFn(in) == IF ValueArg(in) = VStr("") THEN 0 ELSE Len(in.args)

(***************************************************************************)
(* RedisCaching decorators and the wrapper objects they build.             *)
(***************************************************************************)
\* given records what the decorator was passed, attached what was attached to
\* the wrapper since (the last key function, whether a ttl function).
Wrapper(impl, func, el, get_cache_key, expire_in) ==
    [impl |-> impl, func |-> func, cache_element |-> el,
     get_cache_key |-> get_cache_key, expire_in |-> expire_in,
     given |-> [get_cache_key |-> get_cache_key, expire_in |-> expire_in],
     attached |-> [cache_key |-> "None", expire_in |-> FALSE]]

\* RedisCaching.cache_string / cache_dict / cache_dict_string / cache_list /
\* cache_datetime: the cache element each decorator shape passes to cache_value
ElementOf(shape, dict_key) ==
    CASE shape = "cache_string" -> CacheElementSingleType(StringCacheable)
      [] shape = "cache_dict" -> CacheElementSingleType(DictCacheable)
      [] shape = "cache_dict_string" -> CacheElementSingleType(DictStringCacheable(dict_key))
      [] shape = "cache_list" -> CacheElementSingleType(ListCacheable)
      [] shape = "cache_datetime" -> CacheDateTime

\* The decorator shape a wrapper was built by, from its element.
ShapeOf(w) ==
    CASE w.cache_element.cls = "CacheDateTime" -> "cache_datetime"
      [] w.cache_element.cacheable.cls = "StringCacheable" -> "cache_string"
      [] w.cache_element.cacheable.cls = "DictCacheable" -> "cache_dict"
      [] w.cache_element.cacheable.cls = "DictStringCacheable" -> "cache_dict_string"
      [] w.cache_element.cacheable.cls = "ListCacheable" -> "cache_list"

\* str(kwargs): the repr of a dict of strings
RECURSIVE StrItems(_)
StrItems(kwargs) ==
    IF kwargs = <<>> THEN ""
    ELSE "'" \o kwargs[1][1] \o "': '" \o kwargs[1][2].s \o "'"
         \o (IF Len(kwargs) > 1 THEN ", " ELSE "") \o StrItems(Tail(kwargs))

StrKwargs(kwargs) == "{" \o StrItems(kwargs) \o "}"

\* ':'.join(parts)
RECURSIVE Join(_)
Join(parts) ==
    IF parts = <<>> THEN ""
    ELSE IF Len(parts) = 1 THEN parts[1]
    ELSE parts[1] \o ":" \o Join(Tail(parts))

\* CacheValueWrapper._calculate_cache_key
CalculateCacheKey(w, in) ==
    IF w.get_cache_key = "None"
    THEN Join(<<"redis_decorators", Join(<<w.func>> \o in.args \o <<StrKwargs(in.kwargs)>>)>>)
    ELSE KeyFn(w.get_cache_key, in)

\* Variant: a time-to-live of one second where none is configured.
CalculateExpireInDefault(w, value, in) ==
    CASE w.expire_in.kind = "callable" ->
            LET kw == Input(in.args, in.kwargs \o << <<"value", value>> >>)
            IN  [secs |-> IF ExpireFn(kw) = 0 THEN 1 ELSE ExpireFn(kw),
                 called |-> TRUE, with |-> kw]
      [] OTHER -> [secs |-> IF w.expire_in.n = 0 THEN 1 ELSE w.expire_in.n,
                   called |-> FALSE, with |-> NoInput]

\* Variant: the ttl function called with the call's arguments alone.
CalculateExpireInNoValue(w, value, in) ==
    CASE w.expire_in.kind = "callable" ->
            [secs |-> ExpireFn(in), called |-> TRUE, with |-> in]
      [] OTHER -> [secs |-> w.expire_in.n, called |-> FALSE, with |-> NoInput]

\* CacheValueWrapper._calculate_expire_in: the seconds, 0 standing for a
\* falsy result (None or zero), and the input the ttl function was called with
CalculateExpireIn(w, value, in) ==
    CASE w.expire_in.kind = "callable" ->
            LET kw == Input(in.args, in.kwargs \o << <<"value", value>> >>)
            IN  [secs |-> ExpireFn(kw), called |-> TRUE, with |-> kw]
      [] OTHER -> [secs |-> w.expire_in.n, called |-> FALSE, with |-> NoInput]

(***************************************************************************)
(* The memoizing wrappers.  Each operator is one whole __call__: it takes  *)
(* the engine before and what the wrapped function would return if it were *)
(* invoked, and gives the engine after with what the call did.             *)
(***************************************************************************)
Outcome(e, key, fetched, loaded, invoked, stores, expires, ttl, result) ==
    [e |-> e, key |-> key, fetched |-> fetched, loaded |-> loaded,
     invoked |-> invoked, stores |-> stores, expires |-> expires,
     ttl |-> ttl, result |-> result]

\* The calls of the key function a call of the wrapper makes: the arguments
\* of each.
KeyFunctionCalls(w, in) == IF w.get_cache_key = "None" THEN <<>> ELSE <<in>>

\* The engine commands a call of the wrapper issued, from what it did: the
\* fetch of get_value, the commands of set_value, the EXPIRE.
Commands(w, out) ==
    LET c == w.cache_element.cacheable
    IN  (IF w.impl = "CacheValue" /\ w.get_cache_key = "None"
         THEN <<>> ELSE <<FetchCommand(c, out.key)>>)
        \o (IF out.stores > 0 THEN StoreCommands(c, out.key) ELSE <<>>)
        \o (IF out.expires > 0 THEN << <<"expire", out.key>> >> ELSE <<>>)

NoTtlCall == [secs |-> 0, called |-> FALSE, with |-> NoInput]

\* Variant: __call__ that sets the time-to-live again on every hit.
CacheValueWrapperCallRefresh(w, in, ret, e) ==
    LET cache_key == CalculateCacheKey(w, in)
        got == GetValue(w.cache_element, e, cache_key)
        set == SetValue(w.cache_element, e, cache_key, ret)
        expire_in == CalculateExpireIn(w, ret, in)
    IN  CASE IsRaise(got.r) ->
                Outcome(e, cache_key, got.r, got.loaded, 0, 0, 0, NoTtlCall, got.r)
          [] got.r # None ->
                Outcome(Expire(e, cache_key, w.expire_in.n).e, cache_key,
                        got.r, got.loaded, 0, 0, 0, NoTtlCall, got.r)
          [] IsRaise(set.r) ->
                Outcome(set.e, cache_key, None, FALSE, 1, 1, 0, NoTtlCall, set.r)
          [] expire_in.secs # 0 ->
                Outcome(Expire(set.e, cache_key, expire_in.secs).e, cache_key,
                        None, FALSE, 1, 1, 1, expire_in, ret)
          [] OTHER ->
                Outcome(set.e, cache_key, None, FALSE, 1, 1, 0, expire_in, ret)

\* CacheValueWrapper.__call__
CacheValueWrapperCall(w, in, ret, e) ==
    LET cache_key == CalculateCacheKey(w, in)
        got == GetValue(w.cache_element, e, cache_key)
        set == SetValue(w.cache_element, e, cache_key, ret)
        expire_in == CalculateExpireIn(w, ret, in)
    IN  CASE IsRaise(got.r) ->
                Outcome(e, cache_key, got.r, got.loaded, 0, 0, 0, NoTtlCall, got.r)
          [] got.r # None ->
                Outcome(e, cache_key, got.r, got.loaded, 0, 0, 0, NoTtlCall, got.r)
          [] IsRaise(set.r) ->
                Outcome(set.e, cache_key, None, FALSE, 1, 1, 0, NoTtlCall, set.r)
          [] expire_in.secs # 0 ->
                Outcome(Expire(set.e, cache_key, expire_in.secs).e, cache_key,
                        None, FALSE, 1, 1, 1, expire_in, ret)
          [] OTHER ->
                Outcome(set.e, cache_key, None, FALSE, 1, 1, 0, expire_in, ret)

\* Variant: CacheValue.__call__ without the check of _get_cache_key.
CacheValueCallUnchecked(w, in, ret, e) ==
    LET cache_key == KeyFn(w.get_cache_key, in)
        got == GetValue(w.cache_element, e, cache_key)
        set == SetValue(w.cache_element, e, cache_key, ret)
    IN  CASE IsRaise(got.r) \/ got.r # None ->
                Outcome(e, cache_key, got.r, got.loaded, 0, 0, 0, NoTtlCall, got.r)
          [] IsRaise(set.r) ->
                Outcome(set.e, cache_key, None, FALSE, 1, 1, 0, NoTtlCall, set.r)
          [] OTHER ->
                Outcome(set.e, cache_key, None, FALSE, 1, 1, 0, NoTtlCall, ret)

\* CacheValue.__call__ and CacheValue._get_cache_key (redis_utils): no default
\* key and no time-to-live.
CacheValueCall(w, in, ret, e) ==
    LET cache_key == KeyFn(w.get_cache_key, in)
        got == GetValue(w.cache_element, e, cache_key)
        set == SetValue(w.cache_element, e, cache_key, ret)
    IN  CASE w.get_cache_key = "None" ->
                Outcome(e, "", None, FALSE, 0, 0, 0, NoTtlCall,
                        Raise("ValueError: cache_value: must define get_cache_key."))
          [] IsRaise(got.r) \/ got.r # None ->
                Outcome(e, cache_key, got.r, got.loaded, 0, 0, 0, NoTtlCall, got.r)
          [] IsRaise(set.r) ->
                Outcome(set.e, cache_key, None, FALSE, 1, 1, 0, NoTtlCall, set.r)
          [] OTHER ->
                Outcome(set.e, cache_key, None, FALSE, 1, 1, 0, NoTtlCall, ret)

WrapperCall(w, in, ret, e) ==
    IF w.impl = "CacheValueWrapper"
    THEN CacheValueWrapperCall(w, in, ret, e)
    ELSE CacheValueCall(w, in, ret, e)

(***************************************************************************)
(* Observations.  last records what the last operation did, in the terms a *)
(* test observes it: mocks' call counts, the returned value, the key.      *)
(***************************************************************************)
NoObs ==
    [op |-> "none", func |-> "", in |-> NoInput, cacheable |-> StringCacheable,
     key |-> "", absent |-> FALSE, held |-> "None", stored |-> FALSE,
     fetched |-> None, loaded |-> FALSE,
     invoked |-> 0, fargs |-> NoInput, fresh |-> None, stores |-> 0,
     expires |-> 0, ttl |-> NoTtlCall, result |-> None,
     memo |-> None, replaced |-> FALSE, changed |-> FALSE,
     ttl_before |-> -2, instance |-> "", margs |-> NoInput,
     keyfn |-> <<>>, commands |-> <<>>, was_removed |-> FALSE]

\* an empty engine, nothing decorated, nothing observed
InitWrappers ==
    /\ cache = EmptyCache
    /\ wrappers = [f \in {} |-> Wrapper("", "", CacheDateTime, "None", ExpNone)]
    /\ last = NoObs
    /\ computed = [c \in {} |-> None]
    /\ outofband = {}
    /\ removed = {}

Init ==
    /\ InitWrappers
    /\ procs = <<>>
    /\ conn = <<>>
    /\ url = <<>>

\* RedisCaching.cache_value(...)(func): a function is decorated once.  The
\* redis_utils wrapper is modelled for cache_string, which has no ttl.
Decorate(f, impl, shape, dict_key, get_cache_key, expire_in) ==
    /\ f \notin DOMAIN wrappers
    /\ impl = "CacheValue" => shape = "cache_string" /\ expire_in = ExpNone
    /\ wrappers' = Put(wrappers, f,
            Wrapper(impl, f, ElementOf(shape, dict_key), get_cache_key, expire_in))
    /\ last' = [NoObs EXCEPT !.op = "decorate", !.func = f]
    /\ UNCHANGED <<cache, computed, outofband, removed, others>>

\* Variant: cache_key that sets the key function only where none was given.
CacheKeyIfUnset(f, fn) ==
    /\ f \in DOMAIN wrappers
    /\ wrappers' = [wrappers EXCEPT
            ![f].get_cache_key = IF @ = "None" THEN fn ELSE @,
            ![f].attached.cache_key = fn]
    /\ last' = [NoObs EXCEPT !.op = "cache_key", !.func = f]
    /\ UNCHANGED <<cache, computed, outofband, removed, others>>

\* wrapper.cache_key(func)
CacheKey(f, fn) ==
    /\ f \in DOMAIN wrappers
    /\ wrappers' = [wrappers EXCEPT ![f].get_cache_key = fn,
                                     ![f].attached.cache_key = fn]
    /\ last' = [NoObs EXCEPT !.op = "cache_key", !.func = f]
    /\ UNCHANGED <<cache, computed, outofband, removed, others>>

\* wrapper.expire_in(func)
ExpireIn(f) ==
    /\ f \in DOMAIN wrappers
    /\ wrappers[f].impl = "CacheValueWrapper"
    /\ wrappers' = [wrappers EXCEPT ![f].expire_in = ExpFn,
                                     ![f].attached.expire_in = TRUE]
    /\ last' = [NoObs EXCEPT !.op = "expire_in", !.func = f]
    /\ UNCHANGED <<cache, computed, outofband, removed, others>>

\* CacheValueWrapper.__call__ as an operation of the program: the wrapper of f
\* called with arguments in; ret is what the wrapped function returns if the
\* wrapper invokes it.  instance and margs are the object and the arguments of
\* the method call this call came from, "" and no arguments for a plain call.
InvokeReturning(f, in, ret, instance, margs) ==
    /\ f \in DOMAIN wrappers
    /\ LET w == wrappers[f]
           out == WrapperCall(w, in, ret, cache)
       IN  /\ cache' = out.e
           /\ last' = [NoObs EXCEPT
                  !.op = "call", !.func = f, !.in = in,
                  !.cacheable = w.cache_element.cacheable, !.key = out.key,
                  !.absent = ~Exists(cache, out.key), !.held = KindOf(cache, out.key),
                  !.stored = Stored(w.cache_element.cacheable, cache, out.key),
                  !.fetched = out.fetched,
                  !.loaded = out.loaded, !.invoked = out.invoked,
                  !.fargs = IF out.invoked > 0 THEN in ELSE NoInput,
                  !.fresh = IF out.invoked > 0 THEN ret ELSE None,
                  !.stores = out.stores, !.expires = out.expires,
                  !.ttl = out.ttl, !.result = out.result,
                  !.memo = IF <<f, out.key>> \in DOMAIN computed
                           THEN computed[<<f, out.key>>] ELSE None,
                  !.replaced = out.key \in outofband,
                  !.changed = out.e # cache,
                  !.ttl_before = Ttl(cache, out.key),
                  !.instance = instance, !.margs = margs,
                  !.keyfn = KeyFunctionCalls(w, in), !.commands = Commands(w, out),
                  !.was_removed = out.key \in removed]
           /\ computed' = IF out.invoked > 0 THEN Put(computed, <<f, out.key>>, ret) ELSE computed
           /\ outofband' = IF out.e # cache THEN outofband \ {out.key} ELSE outofband
           /\ removed' = IF Exists(out.e, out.key) THEN removed \ {out.key} ELSE removed
    /\ UNCHANGED <<wrappers, others>>

\* the call, the wrapped function returning a value of the decorator's shape
Invoke(f, in, ret, instance, margs) ==
    /\ f \in DOMAIN wrappers
    /\ ret \in Returns(ShapeOf(wrappers[f]))
    /\ InvokeReturning(f, in, ret, instance, margs)

\* A call of the decorated function f with arguments in.
Call(f, in, ret) == Invoke(f, in, ret, "", NoInput)

\* Variant: the method reached without binding, the instance not passed.
BindNothing(instance, in) == in

\* CacheValueWrapper.__get__: partial(self, instance) puts the instance before
\* the arguments of the call
Bind(instance, in) == Input(<<instance>> \o in.args, in.kwargs)

\* instance.method(a1, ..., an) of a decorated method
MethodCall(f, instance, in, ret) == Invoke(f, Bind(instance, in), ret, instance, in)

Forget(keys) == [c \in {x \in DOMAIN computed : x[2] \notin keys} |-> computed[c]]

\* Another client of the engine writes v under an existing key, with the
\* command of v's type.
OutOfBand(k, v) ==
    /\ Exists(cache, k)
    /\ LET c == CASE v.kind = "str" -> StringCacheable
                  [] v.kind = "dict" -> DictCacheable
                  [] v.kind = "list" -> ListCacheable
           out == Store(c, cache, k, v)
       IN  /\ ~IsRaise(out.r)
           /\ cache' = out.e
           /\ last' = [NoObs EXCEPT !.op = "out_of_band", !.key = k, !.fresh = v]
    /\ computed' = Forget({k})
    /\ outofband' = outofband \cup {k}
    /\ removed' = removed \ {k}
    /\ UNCHANGED <<wrappers, others>>

\* RedisCaching.delete(cache_key)
RedisCachingDelete(k) ==
    /\ cache' = Delete(cache, k).e
    /\ last' = [NoObs EXCEPT !.op = "delete", !.key = k, !.absent = ~Exists(cache, k),
                             !.changed = Delete(cache, k).e # cache,
                             !.result = Delete(cache, k).r]
    /\ computed' = Forget({k})
    /\ outofband' = outofband \ {k}
    /\ removed' = {k}
    /\ UNCHANGED <<wrappers, others>>

\* One second passes in the engine: keys whose time-to-live runs out vanish.
Tick ==
    /\ DOMAIN cache.ttl # {}
    /\ LET gone == {k \in DOMAIN cache.ttl : cache.ttl[k] <= 1}
       IN  /\ cache' = [data |-> [k \in (DOMAIN cache.data) \ gone |-> cache.data[k]],
                        ttl |-> [k \in (DOMAIN cache.ttl) \ gone |-> cache.ttl[k] - 1]]
           /\ computed' = Forget(gone)
           /\ outofband' = outofband \ gone
           /\ removed' = IF gone # {} THEN gone ELSE removed
    /\ last' = [NoObs EXCEPT !.op = "tick"]
    /\ UNCHANGED <<wrappers, others>>

Keys == {CalculateCacheKey(Wrapper("CacheValueWrapper", f, CacheDateTime, g, ExpNone), in) :
            f \in FuncNames, g \in KeyFns \cup {"None"}, in \in Inputs}

Next ==
    \/ \E f \in FuncNames, shape \in Shapes, g \in KeyFns \cup {"None"} :
            Decorate(f, "CacheValueWrapper", shape, "dict-key", g, ExpNone)
    \/ \E f \in FuncNames, g \in KeyFns \cup {"None"} :
            Decorate(f, "CacheValue", "cache_string", "", g, ExpNone)
    \/ \E f \in FuncNames, g \in KeyFns : CacheKey(f, g)
    \/ \E f \in FuncNames, in \in Inputs, shape \in Shapes :
            \E ret \in Returns(shape) : Call(f, in, ret)
    \/ \E k \in Keys, v \in OutOfBandValues : OutOfBand(k, v)
    \/ \E k \in Keys : RedisCachingDelete(k)

Spec == Init /\ [][Next]_vars

(***************************************************************************)
(* The time-to-live configurations: cache_string with a fixed or computed  *)
(* expire_in, and the engine's clock.                                      *)
(***************************************************************************)
NextTtl ==
    \/ \E f \in FuncNames, shape \in Shapes, g \in KeyFns \cup {"None"}, x \in FixedExpireIn :
            Decorate(f, "CacheValueWrapper", shape, "dict-key", g, x)
    \/ \E f \in FuncNames : ExpireIn(f)
    \/ \E f \in FuncNames, in \in Inputs, shape \in Shapes :
            \E ret \in Returns(shape) : Call(f, in, ret)
    \/ \E k \in Keys : RedisCachingDelete(k)
    \/ Tick

SpecTtl == Init /\ [][NextTtl]_vars

(***************************************************************************)
(* Key functions attached after decoration: two of them, so that one can   *)
(* replace the other.                                                      *)
(***************************************************************************)
AttachedKeyFns == {"object", "other"}

AttachKeys == {CalculateCacheKey(Wrapper("CacheValueWrapper", f, CacheDateTime, g, ExpNone), in) :
                  f \in FuncNames, g \in AttachedKeyFns \cup {"None"}, in \in Inputs}

NextKey ==
    \/ \E f \in FuncNames, shape \in {"cache_string", "cache_list"},
          g \in AttachedKeyFns \cup {"None"} :
            Decorate(f, "CacheValueWrapper", shape, "", g, ExpNone)
    \/ \E f \in FuncNames, g \in AttachedKeyFns \cup {"None"} :
            Decorate(f, "CacheValue", "cache_string", "", g, ExpNone)
    \/ \E f \in FuncNames, g \in AttachedKeyFns : CacheKey(f, g)
    \/ \E f \in FuncNames, in \in Inputs, shape \in {"cache_string", "cache_list"} :
            \E ret \in Returns(shape) : Call(f, in, ret)
    \/ \E k \in AttachKeys : RedisCachingDelete(k)

SpecKey == Init /\ [][NextKey]_vars

(***************************************************************************)
(* Decorated methods, called through instances of their class.             *)
(***************************************************************************)
Instances == {"<MyClass object at 0x1>", "<MyClass object at 0x2>"}

MethodKeys == {CalculateCacheKey(Wrapper("CacheValueWrapper", f, CacheDateTime, g, ExpNone),
                                 Bind(i, in)) :
                  f \in FuncNames, g \in KeyFns \cup {"None"}, in \in Inputs, i \in Instances}

NextMethod ==
    \/ \E f \in FuncNames, shape \in {"cache_string", "cache_list"}, g \in KeyFns \cup {"None"} :
            Decorate(f, "CacheValueWrapper", shape, "", g, ExpNone)
    \/ \E f \in FuncNames : ExpireIn(f)
    \/ \E f \in FuncNames, i \in Instances, in \in Inputs,
          shape \in {"cache_string", "cache_list"} :
            \E ret \in Returns(shape) : MethodCall(f, i, in, ret)
    \/ \E k \in MethodKeys : RedisCachingDelete(k)

SpecMethod == Init /\ [][NextMethod]_vars

(***************************************************************************)
(* Concurrent callers of one decorated function with the same arguments,   *)
(* each __call__ taken one engine command at a time, and a reader of the    *)
(* key.  procs.callers gives where each caller is, procs.last_store the     *)
(* caller whose store was completed last, procs.seen the last value fetched.*)
(***************************************************************************)
Callers == {"a", "b"}

RaceInput == Input(<<"123", "abc">>, <<>>)

\* What the wrapped function returns to caller p: a different value for each
\* caller, none of them empty.
RaceValue(p, shape) ==
    CASE shape \in {"cache_string", "cache_dict_string"} -> VStr(p)
      [] shape = "cache_dict" -> VDict(DictOf(p, "value"))
      [] shape = "cache_list" -> VList(<<p, "value">>)
      [] shape = "cache_datetime" ->
            VDateTime(<<2021, 2, 3, 4, 5, 6, IF p = "a" THEN 0 ELSE 7>>)

\* before is the engine as the caller's call found it, raised the exception
\* raised inside the call
Idle == [pc |-> "idle", key |-> "", value |-> None, result |-> None,
         before |-> EmptyCache, raised |-> None]

InitRace ==
    /\ InitWrappers
    /\ conn = <<>>
    /\ url = <<>>
    /\ procs = [callers |-> [p \in Callers |-> Idle], last_store |-> "", seen |-> None]

\* __call__ up to the result of get_value, and on a miss the invocation of the
\* wrapped function: the key is derived, one fetch command is issued, and a
\* value other than None is returned at once
Begin(p, f) ==
    /\ f \in DOMAIN wrappers
    /\ procs.callers[p].pc = "idle"
    /\ LET w == wrappers[f]
           cache_key == CalculateCacheKey(w, RaceInput)
           got == GetValue(w.cache_element, cache, cache_key)
       IN  procs' = [procs EXCEPT
               !.seen = got.r,
               !.callers[p] =
                   IF got.r = None
                   THEN [pc |-> "computed", key |-> cache_key,
                         value |-> RaceValue(p, ShapeOf(w)), result |-> None,
                         before |-> cache, raised |-> None]
                   ELSE [pc |-> "done", key |-> cache_key, value |-> None,
                         result |-> got.r, before |-> cache, raised |-> None]]
    /\ UNCHANGED <<cache, wrappers, last, computed, outofband, removed, conn, url>>

\* set_value, as far as its first engine command: the whole store for the
\* adapters that store with one command, the delete for ListCacheable
StoreFirst(p, f) ==
    /\ f \in DOMAIN wrappers
    /\ procs.callers[p].pc = "computed"
    /\ LET el == wrappers[f].cache_element
           me == procs.callers[p]
       IN  IF el.cacheable.cls = "ListCacheable"
           THEN /\ cache' = ListCacheableStoreDelete(cache, me.key).e
                /\ procs' = [procs EXCEPT !.callers[p].pc = "deleted"]
           ELSE /\ cache' = SetValue(el, cache, me.key, me.value).e
                /\ procs' = [procs EXCEPT !.callers[p].pc = "stored",
                                          !.last_store = p]
    /\ UNCHANGED <<wrappers, last, computed, outofband, removed, conn, url>>

\* ListCacheable.store, its second engine command
StorePush(p, f) ==
    /\ f \in DOMAIN wrappers
    /\ procs.callers[p].pc = "deleted"
    /\ LET el == wrappers[f].cache_element
           me == procs.callers[p]
       IN  /\ cache' = ListCacheableStorePush(cache, me.key, Dump(el, me.value)).e
           /\ procs' = [procs EXCEPT !.callers[p].pc = "stored",
                                     !.last_store = p]
    /\ UNCHANGED <<wrappers, last, computed, outofband, removed, conn, url>>

\* __call__ after set_value: _calculate_expire_in, and client.expire when its
\* result is truthy; the value computed is the result of the call
ExpireStep(p, f) ==
    /\ f \in DOMAIN wrappers
    /\ procs.callers[p].pc = "stored"
    /\ LET me == procs.callers[p]
           expire_in == CalculateExpireIn(wrappers[f], me.value, RaceInput)
       IN  /\ cache' = IF expire_in.secs # 0
                       THEN Expire(cache, me.key, expire_in.secs).e
                       ELSE cache
           /\ procs' = [procs EXCEPT !.callers[p].pc = "done",
                                     !.callers[p].result = me.value]
    /\ UNCHANGED <<wrappers, last, computed, outofband, removed, conn, url>>

\* The errors a call can meet: of the engine client, of the wrapped function,
\* of the ttl function.
ClientError == Raise("ConnectionError")
FunctionError == Raise("FunctionError")
TtlFunctionError == Raise("TtlFunctionError")

\* Variant: an exception swallowed, the call returning None.
RaisedSwallowed(p, error, key) ==
    [procs EXCEPT !.callers[p] =
        [pc |-> "done", key |-> key, value |-> procs.callers[p].value,
         result |-> None, raised |-> error,
         before |-> IF procs.callers[p].pc = "idle" THEN cache
                    ELSE procs.callers[p].before]]

\* An exception leaves __call__ where it is raised: the caller gets it and
\* nothing after that point runs.
Raised(p, error, key) ==
    [procs EXCEPT !.callers[p] =
        [pc |-> "done", key |-> key, value |-> procs.callers[p].value,
         result |-> error, raised |-> error,
         before |-> IF procs.callers[p].pc = "idle" THEN cache
                    ELSE procs.callers[p].before]]

\* get_value fails: the fetch command raises
FetchFails(p, f) ==
    /\ f \in DOMAIN wrappers
    /\ procs.callers[p].pc = "idle"
    /\ procs' = Raised(p, ClientError, CalculateCacheKey(wrappers[f], RaceInput))
    /\ UNCHANGED <<cache, wrappers, last, computed, outofband, removed, conn, url>>

\* the fetch gives None and the wrapped function raises
FunctionRaises(p, f) ==
    /\ f \in DOMAIN wrappers
    /\ procs.callers[p].pc = "idle"
    /\ LET w == wrappers[f]
           cache_key == CalculateCacheKey(w, RaceInput)
       IN  /\ GetValue(w.cache_element, cache, cache_key).r = None
           /\ procs' = [Raised(p, FunctionError, cache_key) EXCEPT !.seen = None]
    /\ UNCHANGED <<cache, wrappers, last, computed, outofband, removed, conn, url>>

\* the value is stored and the ttl function raises
TtlFunctionRaises(p, f) ==
    /\ f \in DOMAIN wrappers
    /\ procs.callers[p].pc = "stored"
    /\ wrappers[f].expire_in.kind = "callable"
    /\ procs' = Raised(p, TtlFunctionError, procs.callers[p].key)
    /\ UNCHANGED <<cache, wrappers, last, computed, outofband, removed, conn, url>>

\* the value is stored, the ttl is truthy and client.expire raises
ExpireFails(p, f) ==
    /\ f \in DOMAIN wrappers
    /\ procs.callers[p].pc = "stored"
    /\ CalculateExpireIn(wrappers[f], procs.callers[p].value, RaceInput).secs # 0
    /\ procs' = Raised(p, ClientError, procs.callers[p].key)
    /\ UNCHANGED <<cache, wrappers, last, computed, outofband, removed, conn, url>>

\* the call returns; the caller may call again
Return(p) ==
    /\ procs.callers[p].pc = "done"
    /\ procs' = [procs EXCEPT !.callers[p] = Idle]
    /\ UNCHANGED <<cache, wrappers, last, computed, outofband, removed, conn, url>>

\* a reader of the key: cache_element.get_value(client, key)
ReaderGetValue(f) ==
    /\ f \in DOMAIN wrappers
    /\ LET w == wrappers[f]
       IN  procs' = [procs EXCEPT !.seen =
               GetValue(w.cache_element, cache, CalculateCacheKey(w, RaceInput)).r]
    /\ UNCHANGED <<cache, wrappers, last, computed, outofband, removed, conn, url>>

NextRace ==
    \/ \E f \in FuncNames, shape \in Shapes :
            Decorate(f, "CacheValueWrapper", shape, "dict-key", "object", ExpNone)
    \/ \E p \in Callers, f \in FuncNames : Begin(p, f)
    \/ \E p \in Callers, f \in FuncNames : StoreFirst(p, f)
    \/ \E p \in Callers, f \in FuncNames : StorePush(p, f)
    \/ \E p \in Callers, f \in FuncNames : ExpireStep(p, f)
    \/ \E p \in Callers : Return(p)
    \/ \E f \in FuncNames : ReaderGetValue(f)

SpecRace == InitRace /\ [][NextRace]_vars

(***************************************************************************)
(* One caller whose calls can fail: the fetch, the wrapped function, the    *)
(* ttl function or the EXPIRE may raise.  The decorator has a fixed         *)
(* time-to-live or none, and a ttl function may be attached.                *)
(***************************************************************************)
NextFault ==
    \/ \E f \in FuncNames, shape \in Shapes, x \in {ExpNone, ExpInt(MaxTtl)} :
            Decorate(f, "CacheValueWrapper", shape, "dict-key", "object", x)
    \/ \E f \in FuncNames : ExpireIn(f)
    \/ \E f \in FuncNames : Begin("a", f)
    \/ \E f \in FuncNames : FetchFails("a", f)
    \/ \E f \in FuncNames : FunctionRaises("a", f)
    \/ \E f \in FuncNames : StoreFirst("a", f)
    \/ \E f \in FuncNames : StorePush("a", f)
    \/ \E f \in FuncNames : ExpireStep("a", f)
    \/ \E f \in FuncNames : TtlFunctionRaises("a", f)
    \/ \E f \in FuncNames : ExpireFails("a", f)
    \/ Return("a")

SpecFault == InitRace /\ [][NextFault]_vars

(***************************************************************************)
(* RedisCaching holders and their connections.  conn.holders are the       *)
(* RedisCaching objects, conn.cache_instances is the class attribute        *)
(* _cache_instances that all of them share, conn.created logs the calls of  *)
(* cache_cls.from_url and conn.returned what get_cache returned per URL.    *)
(***************************************************************************)
Holders == {"caching", "other_caching"}
Urls == {"redis://a", "redis://b"}
CacheClasses == {"Redis", "FakeRedis"}

\* keyword options given to RedisCaching(url, **kwargs): none, or a timeout
Options == {<<>>, <<5>>}

\* {**self._default_cache_kwargs, **kwargs}
CacheKwargs(kwargs) ==
    [decode_responses |-> TRUE,
     socket_timeout |-> IF kwargs = <<>> THEN 15 ELSE kwargs[1]]

\* no client object
NoClient == [id |-> 0, cls |-> "", url |-> "", kwargs |-> CacheKwargs(<<>>)]

\* holder and client: who made the last get_cache call and what it was given
NoConnections ==
    [holders |-> <<>>, cache_instances |-> <<>>, created |-> <<>>,
     returned |-> <<>>, op |-> "none", holder |-> "", client |-> NoClient]

InitConn ==
    /\ InitWrappers
    /\ procs = <<>>
    /\ url = <<>>
    /\ conn = NoConnections

\* cache_cls.from_url(url, **kwargs): a new client object each time, id its
\* identity
FromUrl(cls, u, kwargs) ==
    [id |-> Len(conn.created) + 1, cls |-> cls, url |-> u, kwargs |-> kwargs]

\* caching = RedisCaching(url, **kwargs), of RedisCaching or of a subclass
\* with another cache_cls
NewRedisCaching(h, cls, u, kwargs) ==
    /\ h \notin DOMAIN conn.holders
    /\ conn' = [conn EXCEPT
            !.holders = Put(@, h, [cache_cls |-> cls, url |-> u,
                                   cache_kwargs |-> CacheKwargs(kwargs)]),
            !.op = "RedisCaching", !.holder = "", !.client = NoClient]
    /\ UNCHANGED <<cache, wrappers, last, computed, outofband, removed, procs, url>>

\* caching.init(url, **kwargs)
RedisCachingInit(h, u, kwargs) ==
    /\ h \in DOMAIN conn.holders
    /\ conn' = [conn EXCEPT
            !.holders[h].url = u,
            !.holders[h].cache_kwargs = CacheKwargs(kwargs),
            !.op = "init", !.holder = "", !.client = NoClient]
    /\ UNCHANGED <<cache, wrappers, last, computed, outofband, removed, procs, url>>

\* caching.cache_value(...) and the decorators built on it: a wrapper object
\* that keeps the holder
CacheValueDecorator(h) ==
    /\ h \in DOMAIN conn.holders
    /\ conn' = [conn EXCEPT !.op = "cache_value", !.holder = "", !.client = NoClient]
    /\ UNCHANGED <<cache, wrappers, last, computed, outofband, removed, procs, url>>

\* what get_cache returns to holder h is added to what was returned for h's URL
Returned(h, client) ==
    LET u == conn.holders[h].url
    IN  Put(conn.returned, u,
            (IF u \in DOMAIN conn.returned THEN conn.returned[u] ELSE {}) \cup {client})

\* Variant: get_cache that builds a client on every call.
GetCacheUnshared(h) ==
    /\ h \in DOMAIN conn.holders
    /\ Len(conn.created) < Cardinality(Urls) + 1
    /\ LET self == conn.holders[h]
           client == FromUrl(self.cache_cls, self.url, self.cache_kwargs)
       IN  conn' = [conn EXCEPT
               !.cache_instances = Put(@, self.url, client),
               !.created = Append(@, client),
               !.returned = Returned(h, client),
               !.op = "get_cache", !.holder = h, !.client = client]
    /\ UNCHANGED <<cache, wrappers, last, computed, outofband, removed, procs, url>>

\* caching.get_cache()
GetCache(h) ==
    /\ h \in DOMAIN conn.holders
    /\ LET self == conn.holders[h]
           client == FromUrl(self.cache_cls, self.url, self.cache_kwargs)
       IN  IF self.url \in DOMAIN conn.cache_instances
           THEN conn' = [conn EXCEPT
                   !.returned = Returned(h, conn.cache_instances[self.url]),
                   !.op = "get_cache", !.holder = h,
                   !.client = conn.cache_instances[self.url]]
           ELSE conn' = [conn EXCEPT
                   !.cache_instances = Put(@, self.url, client),
                   !.created = Append(@, client),
                   !.returned = Returned(h, client),
                   !.op = "get_cache", !.holder = h, !.client = client]
    /\ UNCHANGED <<cache, wrappers, last, computed, outofband, removed, procs, url>>

NextConn ==
    \/ \E h \in Holders, cls \in CacheClasses, u \in Urls, kwargs \in Options :
            NewRedisCaching(h, cls, u, kwargs)
    \/ \E h \in Holders, u \in Urls, kwargs \in Options : RedisCachingInit(h, u, kwargs)
    \/ \E h \in Holders : CacheValueDecorator(h)
    \/ \E h \in Holders : GetCache(h)

SpecConn == InitConn /\ [][NextConn]_vars

(***************************************************************************)
(* build_redis_url.  An optional argument is <<>> for None (or for an      *)
(* argument left out) and <<x>> for the value x.                           *)
(***************************************************************************)
MaxDb == 2

\* str(n) of a non-negative integer
RECURSIVE Str(_)
Str(n) == IF n < 10 THEN Char(Digits, n + 1) ELSE Str(n \div 10) \o Char(Digits, (n % 10) + 1)

\* the truth value Python gives an optional string, integer, boolean
TruthyStr(x) == x # <<>> /\ x[1] # ""
TruthyInt(x) == x # <<>> /\ x[1] # 0
TruthyBool(x) == x # <<>> /\ x[1]

\* Variant: build_redis_url that takes use_secure for granted.
BuildRedisUrlSecure(host, password, db, use_secure) ==
    LET with_host == IF TruthyStr(password)
                     THEN "rediss://:" \o password[1] \o "@" \o host
                     ELSE "rediss://" \o host
    IN  IF TruthyInt(db) THEN with_host \o "/" \o Str(db[1]) ELSE with_host

\* build_redis_url(host, password, db, use_secure=True)
BuildRedisUrl(host, password, db, use_secure) ==
    LET prefix == IF TruthyBool(IF use_secure = <<>> THEN <<TRUE>> ELSE use_secure)
                  THEN "rediss" ELSE "redis"
        with_host == IF TruthyStr(password)
                     THEN prefix \o "://:" \o password[1] \o "@" \o host
                     ELSE prefix \o "://" \o host
    IN  IF TruthyInt(db) THEN with_host \o "/" \o Str(db[1]) ELSE with_host

Hosts == {"h", "redis:6379"}
Passwords == {<<>>, <<"pass">>, <<"secret">>}
Dbs == {<<>>} \cup {<<n>> : n \in 0..MaxDb}
UseSecure == {<<>>, <<TRUE>>, <<FALSE>>}

InitUrl ==
    /\ InitWrappers
    /\ procs = <<>>
    /\ conn = <<>>
    /\ url \in [host : Hosts, password : Passwords, db : Dbs, use_secure : UseSecure,
                 result : {<<>>}]

\* the call build_redis_url(host, password, db[, use_secure])
CallBuildRedisUrl ==
    /\ url.result = <<>>
    /\ url' = [url EXCEPT !.result =
                    <<BuildRedisUrl(url.host, url.password, url.db, url.use_secure)>>]
    /\ UNCHANGED <<cache, wrappers, last, computed, outofband, removed, procs, conn>>

NextUrl == CallBuildRedisUrl

SpecUrl == InitUrl /\ [][NextUrl]_vars

(***************************************************************************)
(* The adapters and elements used directly, without a wrapper.             *)
(***************************************************************************)
AdapterKeys == {"cache-key", "other-key"}

Adapters ==
    {StringCacheable, DictStringCacheable("dict-key"), DictStringCacheable("hash"),
     DictCacheable, ListCacheable}

Elements == {CacheElementSingleType(c) : c \in Adapters} \cup {CacheDateTime}

\* Values of the type each adapter stores.
StoreValues(c) ==
    CASE KindFor(c) = "str" -> {VStr(""), VStr("string-value"), VStr("2021-02-03T04:05:06")}
      [] KindFor(c) = "list" -> {VList(<<>>), VList(<<"list", "value">>), VList(<<"value">>)}
      [] c.cls = "DictStringCacheable" -> {VStr(""), VStr("string-value")}
      [] OTHER -> {VDict(EmptyDict), VDict(DictOf("hash", "value")),
                   VDict(DictOf("other", "value"))}

\* cacheable.store(client, key, value); an error the engine raises is the result
CacheableStore(c, k, v) ==
    /\ LET out == Store(c, cache, k, v)
       IN  /\ cache' = out.e
           /\ last' = [NoObs EXCEPT
                  !.op = "store", !.cacheable = c, !.key = k, !.fresh = v,
                  !.absent = ~Exists(cache, k), !.held = KindOf(cache, k),
                  !.stored = Stored(c, cache, k), !.stores = 1,
                  !.result = out.r, !.changed = out.e # cache]
    /\ UNCHANGED <<wrappers, computed, outofband, removed, others>>

\* cache_element.get_value(client, key)
CacheElementGetValue(el, k) ==
    /\ LET got == GetValue(el, cache, k)
       IN  last' = [NoObs EXCEPT
               !.op = "get_value", !.cacheable = el.cacheable, !.key = k,
               !.absent = ~Exists(cache, k), !.held = KindOf(cache, k),
               !.stored = Stored(el.cacheable, cache, k),
               !.fetched = Fetch(el.cacheable, cache, k),
               !.loaded = got.loaded, !.result = got.r]
    /\ UNCHANGED <<cache, wrappers, computed, outofband, removed, others>>

NextAdapter ==
    \/ \E c \in Adapters, k \in AdapterKeys :
            \E v \in StoreValues(c) : CacheableStore(c, k, v)
    \/ \E el \in Elements, k \in AdapterKeys : CacheElementGetValue(el, k)

SpecAdapter == Init /\ [][NextAdapter]_vars

(***************************************************************************)
(* Properties.                                                             *)
(***************************************************************************)
LastWrapper == wrappers[last.func]

IsCall == last.op = "call"

IsCallOf(impl) == IsCall /\ LastWrapper.impl = impl

NoKeyFunction == LastWrapper.get_cache_key = "None"

ConfigurationError == Raise("ValueError: cache_value: must define get_cache_key.")

RECURSIVE ColonEach(_)
ColonEach(args) == IF args = <<>> THEN "" ELSE args[1] \o ":" \o ColonEach(Tail(args))

\* 'redis_decorators:<function name>:<str(a1)>:...:<str(an)>:<str(kw)>'
DefaultKey(f, in) ==
    "redis_decorators:" \o f \o ":" \o ColonEach(in.args) \o StrKwargs(in.kwargs)

\* C1: a call whose derived key was already computed for by an earlier call
\* of the same function (the key not deleted, expired or overwritten since)
\* does not invoke the wrapped function and returns a value equal to the one
\* the earlier call computed, for every decorator shape.
C1_ComputedOncePerKey ==
    (IsCall /\ last.memo # None) => (last.invoked = 0 /\ last.result = last.memo)

\* C2: a CacheValueWrapper call that finds its key absent invokes the wrapped
\* function exactly once with the call's arguments, stores so that the key
\* exists when the call is over, and returns the freshly computed result.
C2_MissComputesStoresReturns ==
    (IsCallOf("CacheValueWrapper") /\ last.absent) =>
        /\ last.invoked = 1 /\ last.fargs = last.in
        /\ last.stores = 1 /\ Exists(cache, last.key)
        /\ last.result = last.fresh

\* C3 as stated: a call of a memoized function with no key function raises
\* a configuration error, invokes nothing and stores nothing.
C3_NoKeyFunctionRaises ==
    (IsCall /\ NoKeyFunction) =>
        (IsRaise(last.result) /\ last.invoked = 0 /\ last.stores = 0 /\ ~last.changed)

\* C3 amended: with no key function, the redis_utils CacheValue raises the
\* configuration error before it fetches, invokes or stores anything; the
\* redis_decorators CacheValueWrapper raises no configuration error, derives
\* the default key, and on an absent key invokes the function and stores.
C3_NoKeyFunctionByWrapper ==
    (IsCall /\ NoKeyFunction) =>
        IF LastWrapper.impl = "CacheValue"
        THEN /\ last.result = ConfigurationError
             /\ last.invoked = 0 /\ last.stores = 0 /\ ~last.changed
        ELSE /\ last.result # ConfigurationError
             /\ last.key = DefaultKey(last.func, last.in)
             /\ last.absent => (last.invoked = 1 /\ last.stores = 1)

C3_Witness ==
    /\ IsCallOf("CacheValue") /\ NoKeyFunction
    /\ last.result = ConfigurationError

\* C4: a call of a function decorated without a key function derives the
\* default key from the function name and the arguments, and that key is
\* present in the cache after the call, for every decorator shape.
C4_DefaultKeyPresent ==
    (IsCallOf("CacheValueWrapper") /\ NoKeyFunction) =>
        /\ last.key = DefaultKey(last.func, last.in)
        /\ (last.func = "decorated_function" /\ last.in = Input(<<"123", "abc">>, <<>>))
              => last.key = "redis_decorators:decorated_function:123:abc:{}"
        /\ Exists(cache, last.key)

IsStoreBy(classes) ==
    /\ last.op = "store" /\ last.cacheable.cls \in classes
    /\ last.held \in {"None", KindFor(last.cacheable)}

\* C5: for the string adapter and the hash-field adapter, fetch right after
\* store(k, v) returns v, whatever k held before of the same shape.
C5_StringRoundTrip ==
    IsStoreBy({"StringCacheable", "DictStringCacheable"}) =>
        /\ ~IsRaise(last.result)
        /\ Fetch(last.cacheable, cache, last.key) = last.fresh

C5_Witness ==
    /\ IsStoreBy({"DictStringCacheable"}) /\ last.stored
    /\ last.fresh = VStr("")
    /\ Cardinality(DOMAIN cache.data[last.key].h) = 2

\* C6: for the list adapter, fetch right after store(k, v) returns v, the
\* empty list included, whether k was absent or held another list.
C6_ListRoundTrip ==
    IsStoreBy({"ListCacheable"}) =>
        /\ ~IsRaise(last.result)
        /\ Fetch(last.cacheable, cache, last.key) = last.fresh

\* C7: for the hash-map adapter, fetch right after store(k, v) returns
\* exactly v, the empty map included, whether k was absent or held a hash
\* with other fields.
C7_DictRoundTrip ==
    IsStoreBy({"DictCacheable"}) =>
        /\ ~IsRaise(last.result)
        /\ Fetch(last.cacheable, cache, last.key) = last.fresh

\* C8: for every adapter, fetch on a key that does not exist returns None,
\* and get_value returns None for it without calling load.
C8_AbsentKeyIsNone ==
    /\ \A c \in Adapters, k \in AdapterKeys :
            ~Exists(cache, k) => Fetch(c, cache, k) = None
    /\ (last.op = "get_value" /\ last.absent) =>
            (last.fetched = None /\ last.result = None /\ ~last.loaded)

C8_Witness ==
    /\ last.op = "get_value" /\ last.absent
    /\ last.cacheable = DictCacheable
    /\ \E k \in AdapterKeys : KindOf(cache, k) = "dict"

\* C9: in every state, for every adapter, fetch returns None exactly when
\* nothing is stored for the key (or field); a call that finds something
\* stored, the empty string included, does not invoke the wrapped function;
\* and what a call computed and stored without error is stored for the key,
\* so that it is not fetched as None.
C9_AbsenceUnambiguous ==
    /\ \A c \in Adapters, k \in Keys :
            (Fetch(c, cache, k) = None) <=> ~Stored(c, cache, k)
    /\ (IsCall /\ last.stored) => last.invoked = 0
    /\ (IsCall /\ last.invoked = 1 /\ ~IsRaise(last.result)) =>
            /\ Stored(last.cacheable, cache, last.key)
            /\ Fetch(last.cacheable, cache, last.key) = Dump(LastWrapper.cache_element, last.result)

C9_Witness ==
    /\ IsCall /\ last.fetched = VStr("")
    /\ last.invoked = 0 /\ last.result = VStr("")

\* The value the engine holds at the place the adapter c reads under key k.
Held(c, k) ==
    IF c.cls = "DictStringCacheable"
    THEN VStr(cache.data[k].h[c.dict_key])
    ELSE cache.data[k]

\* C10: a call whose key was last written by another client, with a value
\* of the wrapper's type, returns load of that value, does not invoke the
\* wrapped function and writes nothing.
C10_OutOfBandObserved ==
    (IsCall /\ last.replaced /\ last.stored /\ last.held = KindFor(last.cacheable)) =>
        /\ last.invoked = 0 /\ last.stores = 0 /\ last.expires = 0
        /\ ~last.changed
        /\ last.result = Load(LastWrapper.cache_element, Held(last.cacheable, last.key))

C10_Witness ==
    /\ IsCall /\ last.replaced /\ last.stored
    /\ last.memo = None
    /\ last.result = VDateTime(<<2020, 2, 29, 23, 59, 59, 0>>)

\* a call that found nothing, invoked the wrapped function and returned
IsMiss == IsCall /\ last.invoked = 1 /\ ~IsRaise(last.result)

\* C11: with a fixed expire_in of a positive number of seconds, as an integer
\* or as a timedelta, a call that misses and returns leaves the key existing
\* with a time-to-live equal to the configured seconds, set by one EXPIRE; the
\* key was absent before the call (ttl -2).
C11_FixedTtlSetOnMiss ==
    (IsMiss /\ LastWrapper.expire_in.kind \in {"int", "timedelta"}
            /\ LastWrapper.expire_in.n > 0) =>
        /\ last.ttl_before = -2
        /\ Exists(cache, last.key)
        /\ Ttl(cache, last.key) = LastWrapper.expire_in.n
        /\ last.expires = 1

C11_Witness ==
    /\ IsMiss /\ LastWrapper.expire_in = ExpTimedelta(MaxTtl)
    /\ last.ttl_before = -2 /\ Ttl(cache, last.key) = MaxTtl

\* the call's arguments with the computed value as keyword 'value'
WithValue(in, value) == Input(in.args, in.kwargs \o << <<"value", value>> >>)

\* C12: once a ttl function is attached with wrapper.expire_in, whatever
\* expire_in the decorator was given, a call that misses and returns has called
\* the ttl function with the call's arguments plus the computed value as keyword
\* 'value', and a positive result is the time-to-live the key then has.
C12_TtlFunctionReplacesFixed ==
    (IsMiss /\ LastWrapper.attached.expire_in) =>
        /\ last.ttl.called
        /\ last.ttl.with = WithValue(last.in, last.fresh)
        /\ last.ttl.secs = ExpireFn(WithValue(last.in, last.fresh))
        /\ last.ttl.secs > 0 =>
                (last.expires = 1 /\ Ttl(cache, last.key) = last.ttl.secs)

C12_Witness ==
    /\ IsMiss /\ LastWrapper.attached.expire_in
    /\ LastWrapper.given.expire_in = ExpInt(MaxTtl)
    /\ last.ttl.called /\ last.ttl.secs # MaxTtl
    /\ Ttl(cache, last.key) = last.ttl.secs

\* C13: once a key function has been attached with wrapper.cache_key, whether
\* the decorator was given none or another one, every later call derives its
\* key with the function attached last, and hits or misses by that key.
C13_AttachedKeyFunctionUsed ==
    (IsCall /\ LastWrapper.attached.cache_key # "None") =>
        /\ last.key = KeyFn(LastWrapper.attached.cache_key, last.in)
        /\ last.absent => last.invoked = 1
        /\ last.stored => (last.invoked = 0 /\ last.result = last.fetched)

C13_Witness ==
    /\ IsCall /\ LastWrapper.given.get_cache_key = "object"
    /\ LastWrapper.attached.cache_key = "other"
    /\ last.key = KeyFn("other", last.in) /\ last.stored /\ last.invoked = 0

IsMethodCall == IsCall /\ last.instance # ""

Built == url.result # <<>>

StartsWith(s, prefix) ==
    Len(s) >= Len(prefix) /\ SubSeq(s, 1, Len(prefix)) = prefix

EndsWith(s, suffix) ==
    Len(s) >= Len(suffix) /\ SubSeq(s, Len(s) - Len(suffix) + 1, Len(s)) = suffix

\* 'rediss' unless use_secure is False, '://', ':<password>@' when a password
\* is given, the host
SchemeCredentialsHost ==
    (IF url.use_secure = <<FALSE>> THEN "redis" ELSE "rediss") \o "://"
    \o (IF url.password # <<>> THEN ":" \o url.password[1] \o "@" ELSE "")
    \o url.host

\* C15: the URL built starts with the scheme, 'rediss' unless use_secure is
\* False, then '://', then ':<password>@' exactly when a password is given,
\* then the host; with no db index this is the whole URL.
C15_SchemeCredentialsHost ==
    Built =>
        /\ StartsWith(url.result[1], SchemeCredentialsHost)
        /\ url.db = <<>> => url.result[1] = SchemeCredentialsHost

C15_Witness ==
    /\ Built /\ url.host = "h" /\ url.password = <<"pass">> /\ url.db = <<>>
    /\ url.use_secure = <<>> /\ url.result = <<"rediss://:pass@h">>

\* C16: whenever a db index is given, 0 included, the URL built ends with
\* '/<db>', and with no db index it is scheme, credentials and host alone.
C16_DbSegmentWhenGiven ==
    Built =>
        /\ url.db # <<>> => EndsWith(url.result[1], "/" \o Str(url.db[1]))
        /\ url.db = <<>> => url.result[1] = SchemeCredentialsHost

\* the calls of from_url made for URL u
CreatedFor(u) == {i \in 1..Len(conn.created) : conn.created[i].url = u}

\* C17: connections exist only for URLs get_cache was called with (neither
\* constructing or configuring a holder nor building a decorator creates one),
\* from_url was called exactly once for each such URL, all get_cache calls made
\* with one URL returned one and the same connection, and calls made with
\* different URLs returned different connections.
C17_OneConnectionPerUrl ==
    /\ DOMAIN conn.cache_instances = DOMAIN conn.returned
    /\ \A u \in Urls : CreatedFor(u) # {} => u \in DOMAIN conn.returned
    /\ \A u \in Urls : Cardinality(CreatedFor(u)) <= 1
    /\ \A u \in DOMAIN conn.returned :
            /\ Cardinality(CreatedFor(u)) = 1
            /\ conn.returned[u] = {conn.cache_instances[u]}
    /\ \A u, v \in DOMAIN conn.returned :
            u # v => conn.returned[u] \cap conn.returned[v] = {}

C17_Witness ==
    /\ DOMAIN conn.holders = Holders
    /\ conn.holders["caching"].url # conn.holders["other_caching"].url
    /\ DOMAIN conn.returned = Urls
    /\ Len(conn.created) = Cardinality(Urls)
    /\ conn.op = "get_cache"

\* the one decorated function of the race and its key
RaceWrapper == wrappers["decorated_function"]

RaceKey == CalculateCacheKey(RaceWrapper, RaceInput)

\* no caller is inside a call
Quiet == \A p \in Callers : procs.callers[p].pc \in {"idle", "done"}

\* what a fetch returns once caller p's value is what the key holds
AsStoredBy(p) == RaceValue(p, ShapeOf(RaceWrapper))

\* C18: whenever no call is in progress and some caller has stored, the value
\* held under the key is the value of the caller whose store was completed
\* last, for every adapter shape.
C18_LastStoreWins ==
    ("decorated_function" \in DOMAIN wrappers /\ Quiet /\ procs.last_store # "") =>
        GetValue(RaceWrapper.cache_element, cache, RaceKey).r = AsStoredBy(procs.last_store)

\* C19: every value fetched under a list key is the list some store wrote, in
\* full, or None.
C19_ListFetchedWhole ==
    ("decorated_function" \in DOMAIN wrappers /\ ShapeOf(RaceWrapper) = "cache_list") =>
        procs.seen \in {None} \cup {AsStoredBy(p) : p \in Callers}

\* the commands of a call with one of the given names
CommandsNamed(names) == SelectSeq(last.commands, LAMBDA c : c[1] \in names)

\* the fetch command expected of each adapter for key k
ExpectedFetch(c, k) ==
    CASE c.cls = "StringCacheable" -> <<"get", k>>
      [] c.cls = "DictStringCacheable" -> <<"hget", k, c.dict_key>>
      [] c.cls = "DictCacheable" -> <<"hgetall", k>>
      [] c.cls = "ListCacheable" -> <<"lrange", k, "0", "-1">>

\* C20: a call of a memoized function that has a key function calls it
\* exactly once with the call's arguments and issues exactly one fetch
\* command, for the derived key and with the adapter's extra arguments; it
\* issues the adapter's store command exactly once when the fetch gave None
\* (and then invokes the wrapped function once), and no store command and no
\* invocation otherwise.
C20_OneKeyCallOneFetch ==
    (IsCall /\ ~NoKeyFunction) =>
        /\ last.keyfn = <<last.in>>
        /\ last.key = KeyFn(LastWrapper.get_cache_key, last.in)
        /\ CommandsNamed({"get", "hget", "hgetall", "lrange"})
                = <<ExpectedFetch(last.cacheable, last.key)>>
        /\ last.fetched = None =>
                /\ last.invoked = 1
                /\ Len(CommandsNamed({"set", "hset", "rpush"})) = 1
        /\ last.fetched # None =>
                /\ last.invoked = 0
                /\ CommandsNamed({"set", "hset", "rpush", "delete"}) = <<>>

C20_Witness ==
    /\ IsCall /\ ~NoKeyFunction /\ last.cacheable = ListCacheable
    /\ last.fetched # None /\ ~IsRaise(last.fetched) /\ last.memo # None
    /\ last.commands = << <<"lrange", last.key, "0", "-1">> >>

\* a call that found a value under its key and returned it
IsHit == IsCall /\ last.fetched # None /\ ~IsRaise(last.fetched)

\* C21: a call that hits invokes nothing, stores nothing, does not call the ttl
\* function, issues no EXPIRE and leaves the engine as it was: in particular
\* the key's time-to-live after the call is the one it had before.
C21_HitLeavesCacheUnchanged ==
    IsHit =>
        /\ last.invoked = 0 /\ last.stores = 0 /\ last.expires = 0
        /\ ~last.ttl.called
        /\ ~last.changed
        /\ Ttl(cache, last.key) = last.ttl_before

C21_Witness ==
    /\ IsHit /\ LastWrapper.expire_in \in {ExpInt(MaxTtl), ExpTimedelta(MaxTtl)}
    /\ last.ttl_before = MaxTtl - 1 /\ Ttl(cache, last.key) = MaxTtl - 1

\* the seconds the last wrapper's configuration gives the value of the call
ConfiguredTtl ==
    IF LastWrapper.expire_in.kind = "callable"
    THEN ExpireFn(WithValue(last.in, last.fresh))
    ELSE LastWrapper.expire_in.n

\* C22: a call whose key was removed by the last delete or expiry, and not
\* stored under since, is a miss: it invokes the wrapped function once with its
\* arguments, stores so that the key exists again, returns the new result and,
\* with a time-to-live configured, sets it again; and a delete of an absent
\* key changes nothing and raises nothing.
C22_MissAfterDeleteOrExpiry ==
    /\ (IsCall /\ last.was_removed) =>
            /\ last.invoked = 1 /\ last.fargs = last.in
            /\ last.stores = 1 /\ Exists(cache, last.key)
            /\ last.result = last.fresh
            /\ ConfiguredTtl > 0 => Ttl(cache, last.key) = ConfiguredTtl
    /\ (last.op = "delete" /\ last.absent) =>
            (~last.changed /\ ~IsRaise(last.result))

\* the caller of SpecFault
Caller == procs.callers["a"]

\* the caller's call has ended, the fetch or the wrapped function having raised
FailedEarly ==
    /\ "decorated_function" \in DOMAIN wrappers
    /\ Caller.pc = "done" /\ Caller.raised \in {ClientError, FunctionError}
    /\ Caller.value = None

\* C23: when the fetch fails or the wrapped function raises on a miss, the
\* caller gets that very error and the engine is as the call found it: nothing
\* stored under the key, no time-to-live set; after the wrapped function
\* raised, a fetch of the key still gives None, so the next call misses again.
C23_ErrorsLeaveCacheUnchanged ==
    FailedEarly =>
        /\ Caller.result = Caller.raised
        /\ cache = Caller.before
        /\ Ttl(cache, Caller.key) = Ttl(Caller.before, Caller.key)
        /\ Caller.raised = FunctionError =>
                /\ ~Exists(cache, Caller.key)
                /\ GetValue(RaceWrapper.cache_element, cache, Caller.key).r = None

C23_Witness ==
    /\ FailedEarly /\ Caller.raised = FunctionError /\ Caller.result = FunctionError
    /\ ~Exists(cache, Caller.key) /\ RaceWrapper.expire_in = ExpInt(MaxTtl)

\* C24: while the decorator is configured with a time-to-live, every key the
\* engine holds carries one.
C24_StoredKeysCarryTtl ==
    ("decorated_function" \in DOMAIN wrappers /\ RaceWrapper.given.expire_in.n > 0) =>
        \A k \in DOMAIN cache.data : Ttl(cache, k) > 0

\* C25: with no expire_in configured, or a configured or computed value of
\* zero, a call that misses issues no EXPIRE, and the key it stored has no
\* time-to-live.
C25_NoTtlWhenNoneOrZero ==
    (IsCall /\ last.invoked = 1 /\ ConfiguredTtl = 0) =>
        /\ last.expires = 0
        /\ CommandsNamed({"expire"}) = <<>>
        /\ Exists(cache, last.key) => Ttl(cache, last.key) = -1

C25_Witness ==
    /\ IsMiss /\ LastWrapper.expire_in.kind = "callable" /\ last.ttl.called
    /\ last.ttl.secs = 0 /\ Exists(cache, last.key) /\ Ttl(cache, last.key) = -1

(***************************************************************************)
(* Two functions memoized in fields of one hash: cache_dict_string with    *)
(* the same key function, each with a field name, with or without a        *)
(* time-to-live.                                                           *)
(***************************************************************************)
FieldFuncs == {"first", "second"}

FieldNames == {"dict-key", "hash"}

NextFields ==
    \/ \E f \in FieldFuncs, d \in FieldNames, x \in {ExpNone, ExpInt(MaxTtl)} :
            Decorate(f, "CacheValueWrapper", "cache_dict_string", d, "object", x)
    \/ \E f \in FieldFuncs, in \in Inputs :
            \E ret \in Returns("cache_dict_string") : Call(f, in, ret)
    \/ \E k \in Keys : RedisCachingDelete(k)
    \/ Tick

SpecFields == Init /\ [][NextFields]_vars

\* the field of the hash the function f is memoized in
FieldOf(f) == wrappers[f].cache_element.cacheable.dict_key

\* both functions are decorated, with different field names
FieldsDiffer ==
    /\ FieldFuncs \subseteq DOMAIN wrappers
    /\ FieldOf("first") # FieldOf("second")

\* the fields of the hash at k
FieldsAt(e, k) == IF Exists(e, k) THEN DOMAIN e.data[k].h ELSE {}

\* a step that is a call of one of the two functions: its store leaves every
\* other field of the hash as it was, its fetch gives None when the key
\* exists without its field, and a hit returns what the function itself
\* computed
CallKeepsOtherFields ==
    (last'.op = "call" /\ FieldsDiffer) =>
        /\ \A d \in FieldNames \ {FieldOf(last'.func)} :
                HGet(cache', last'.key, d).r = HGet(cache, last'.key, d).r
        /\ (Exists(cache, last'.key) /\ FieldOf(last'.func) \notin FieldsAt(cache, last'.key)) =>
                (last'.fetched = None /\ last'.invoked = 1)
        /\ last'.invoked = 0 => last'.result = last'.memo

\* a step in which a key expires takes away only values of functions that
\* configured a time-to-live
ExpiryOnlyOfOwnTtl ==
    (last'.op = "tick" /\ FieldsDiffer) =>
        \A k \in (DOMAIN cache.data) \ (DOMAIN cache'.data) :
            \A f \in FieldFuncs :
                FieldOf(f) \in FieldsAt(cache, k) => wrappers[f].expire_in.n > 0

\* C26: the hash-field adapter touches only its own field: a store leaves
\* the other fields of the hash unchanged, a fetch gives None when the key
\* exists without the field, and two functions memoized under one key with
\* different field names never read or overwrite each other's value.
C26_StoreTouchesOwnField == [][CallKeepsOtherFields]_vars

\* C26 as stated: moreover neither function invalidates the other's value,
\* so a value cached with no time-to-live never expires.
C26_NeverInvalidateOther == [][CallKeepsOtherFields /\ ExpiryOnlyOfOwnTtl]_vars

C26_Witness ==
    /\ IsMiss /\ FieldsDiffer /\ last.held = "dict" /\ ~last.stored
    /\ FieldsAt(cache, last.key) = FieldNames
    /\ \A f \in FieldFuncs : <<f, last.key>> \in DOMAIN computed

\* the last operation was a get_cache call
GotCache == conn.op = "get_cache"

\* C27: the connection get_cache returns to a holder was built by the holder's
\* own client class with the holder's own connection options.
C27_ConnectionIsHoldersOwn ==
    GotCache =>
        /\ conn.client.cls = conn.holders[conn.holder].cache_cls
        /\ conn.client.kwargs = conn.holders[conn.holder].cache_kwargs

(***************************************************************************)
(* A function memoized with cache_datetime, returning datetimes at the     *)
(* edges of the fields: year 1, a leap day, the first and last hour,       *)
(* microseconds none, few and many.                                        *)
(***************************************************************************)
DateTimes ==
    {d \in {1, 2020} \X {2, 12} \X {29} \X {0, 23} \X {59} \X {0}
            \X {0, 7, 999999} : ValidDateTime(d)}

NextDateTime ==
    \/ \E f \in FuncNames, g \in KeyFns :
            Decorate(f, "CacheValueWrapper", "cache_datetime", "", g, ExpNone)
    \/ \E f \in FuncNames, in \in Inputs, d \in DateTimes :
            InvokeReturning(f, in, VDateTime(d), "", NoInput)
    \/ \E k \in Keys : RedisCachingDelete(k)

SpecDateTime == Init /\ [][NextDateTime]_vars

\* C28: for the datetime element load(dump(d)) = d; a function memoized with
\* cache_datetime returns d itself on the miss and a datetime equal to the d
\* it computed on every hit, while the engine holds the string d.isoformat()
\* under the key, stored as a plain string.
C28_DateTimeRoundTrip ==
    IsCall =>
        /\ LastWrapper.cache_element = CacheDateTime
        /\ LastWrapper.cache_element.cacheable = StringCacheable
        /\ last.invoked = 1 =>
                /\ last.result = last.fresh
                /\ Load(CacheDateTime, Dump(CacheDateTime, last.fresh)) = last.fresh
        /\ last.invoked = 0 =>
                /\ last.result = last.memo
                /\ last.loaded /\ last.fetched = last.memo
        /\ last.result.kind = "datetime"
        /\ Get(cache, last.key).r = VStr(Isoformat(last.result.d))

C28_Witness ==
    /\ IsHit /\ last.result.kind = "datetime" /\ last.result = last.memo
    /\ last.result.d[7] = 999999 /\ last.result.d[3] = 29 /\ last.result.d[2] = 2
    /\ Get(cache, last.key).r = VStr("2020-02-29T23:59:00.999999")

====
